---- MODULE Spec2Model ----
(***************************************************************************)
(* Model of java_type_checker/expressions.py: the expression AST           *)
(* (Variable, Literal, NullLiteral, MethodCall, ConstructorCall) with its  *)
(* static_type() and check_types() operations.  A client builds a tree     *)
(* bottom-up and then calls static_type() and check_types() on its root.   *)
(*                                                                         *)
(* A call's result is a record: Return(v) for a normal return, Raise(...)  *)
(* for an exception, carrying the exception class and the message parts.   *)
(* A Type is represented by its name (type identity is nominal).           *)
(***************************************************************************)
EXTENDS Integers, Sequences, FiniteSets, TLC

MaxArgs == 2
MaxNodes == 4

----------------------------------------------------------------------------
(* The Type capability (types.py, consumed by expressions.py). *)

Primitives == {"void", "boolean", "int", "double", "null"}
ClassTypes == {"Object", "Rectangle", "Square"}
Types == Primitives \cup ClassTypes

MethodNames == {"equals", "fits", "bounds"}

None == "None"
Return(v) == [kind |-> "return", value |-> v]
Raise(cls, msg) == [kind |-> "raise", error |-> cls, message |-> msg]
Raised(r) == r.kind = "raise"

name(t) == t

direct_supertypes(t) ==
    CASE t = "Rectangle" -> {"Object"}
      [] t = "Square"    -> {"Rectangle"}
      [] OTHER           -> {}

Method(argument_types, return_type) ==
    [argument_types |-> argument_types, return_type |-> return_type]

methods(t) ==
    CASE t = "Object"    -> [m \in {"equals"} |-> Method(<<"Object">>, "boolean")]
      [] t = "Rectangle" -> [m \in {"equals", "fits"} |->
                               IF m = "equals" THEN Method(<<"Object">>, "boolean")
                               ELSE Method(<<"Rectangle", "int">>, "boolean")]
      [] t = "Square"    -> [m \in {"equals", "fits", "bounds"} |->
                               CASE m = "equals" -> Method(<<"Object">>, "boolean")
                                 [] m = "fits"   -> Method(<<"Rectangle", "int">>, "boolean")
                                 [] OTHER        -> Method(<<>>, "Rectangle")]
      [] OTHER           -> [m \in {} |-> Method(<<>>, "void")]

method_named(t, m) ==
    IF m \in DOMAIN methods(t)
    THEN Return(methods(t)[m])
    ELSE Raise("NoSuchMethod", <<name(t), " has no method named ", m>>)

constructor(t) ==
    CASE t = "Object"    -> [argument_types |-> <<>>]
      [] t = "Rectangle" -> [argument_types |-> <<"int", "int">>]
      [] t = "Square"    -> [argument_types |-> <<"Rectangle">>]

----------------------------------------------------------------------------
(* Expression nodes. *)

Variable(n, declared_type) ==
    [kind |-> "Variable", name |-> n, declared_type |-> declared_type]

Literal(value, type) ==
    [kind |-> "Literal", value |-> value, type |-> type]

NullLiteral == [kind |-> "NullLiteral", value |-> "null", type |-> "null"]

MethodCall(receiver, method_name, args) ==
    [kind |-> "MethodCall", receiver |-> receiver, method_name |-> method_name,
     args |-> args]

ConstructorCall(instantiated_type, args) ==
    [kind |-> "ConstructorCall", instantiated_type |-> instantiated_type,
     args |-> args]

IsCall(e) == e.kind \in {"MethodCall", "ConstructorCall"}

RECURSIVE static_type(_)
static_type(e) ==
    CASE e.kind = "Variable"        -> Return(e.declared_type)
      [] e.kind = "Literal"         -> Return(e.type)
      [] e.kind = "NullLiteral"     -> Return("null")
      [] e.kind = "ConstructorCall" -> Return(e.instantiated_type)
      [] e.kind = "MethodCall"      ->
            LET r == static_type(e.receiver) IN
            IF Raised(r) THEN r
            ELSE LET m == method_named(r.value, e.method_name) IN
                 IF Raised(m) THEN m ELSE Return(m.value.return_type)

(* names(): "(" + ", ".join([e.name for e in named_things]) + ")"; a string *)
(* is modelled by the sequence of the parts it is concatenated from.        *)
RECURSIVE join(_, _)
join(sep, parts) ==
    IF Len(parts) = 0 THEN <<>>
    ELSE IF Len(parts) = 1 THEN <<parts[1]>>
    ELSE <<parts[1], sep>> \o join(sep, Tail(parts))

names(named_things) ==
    <<"(">> \o join(", ", [i \in 1..Len(named_things) |-> name(named_things[i])])
            \o <<")">>

(* for item in self.args: actual_types.append(item.static_type())          *)
(* The first argument whose static_type() raises ends the loop.            *)
actual_types_of(args) ==
    LET rs == [i \in 1..Len(args) |-> static_type(args[i])]
        bad == {i \in 1..Len(args) : Raised(rs[i])}
    IN IF bad # {}
       THEN rs[CHOOSE i \in bad : \A j \in bad : i <= j]
       ELSE Return([i \in 1..Len(args) |-> rs[i].value])

(* for i in range(len(expected_types)): if expected_types[i] in            *)
(* actual_types[i].direct_supertypes: actual_types[i] = expected_types[i]   *)
promote(expected_types, actual_types) ==
    [i \in 1..Len(expected_types) |->
        IF expected_types[i] \in direct_supertypes(actual_types[i])
        THEN expected_types[i]
        ELSE actual_types[i]]

(* The two literal lists [Type.void, Type.boolean, Type.int, Type.double,  *)
(* Type.null] of MethodCall.check_types and ConstructorCall.check_types.   *)
NoMethodTypes == {"void", "boolean", "int", "double", "null"}
NotInstantiableTypes == {"void", "boolean", "int", "double", "null"}

Expression_check_types(e) ==
    Raise("NotImplementedError",
          <<IF e.kind = "NullLiteral" THEN "NullLiteral" ELSE "Literal",
            " must implement check_types()">>)

(* Variant: the check compares the variable's name with its declared type. *)
Variable_check_types_name_vs_type(e) ==
    IF e.name # e.declared_type
    THEN Raise("TypeError",
               <<"Wrong type of argument for variable creation: expected ",
                 "str", ", got ", e.declared_type>>)
    ELSE Return(None)

Variable_check_types(e) ==
    IF e.declared_type # e.declared_type
    THEN Raise("TypeError",
               <<"Wrong type of argument for variable creation: expected ",
                 "str", ", got ", e.declared_type>>)
    ELSE Return(None)

MethodCall_mismatch(call_name, expected_types, actual_types) ==
    Raise("JavaTypeError",
          call_name \o <<" expects arguments of type ">> \o names(expected_types)
                    \o <<", but got ">> \o names(actual_types))

MethodCall_arity(call_name, expected_types, actual_types) ==
    Raise("JavaTypeError",
          <<"Wrong number of arguments for ">> \o call_name
              \o <<": expected ", ToString(Len(expected_types)),
                   ", got ", ToString(Len(actual_types))>>)

MethodCall_compare(call_name, expected_types, actual_types) ==
    IF Len(actual_types) # Len(expected_types)
    THEN MethodCall_arity(call_name, expected_types, actual_types)
    ELSE IF expected_types # actual_types
         THEN LET promoted == promote(expected_types, actual_types) IN
              IF expected_types # promoted
              THEN MethodCall_mismatch(call_name, expected_types, promoted)
              ELSE Return(None)
         ELSE Return(None)

receiver_declared_type(receiver) ==
    IF "declared_type" \in DOMAIN receiver
    THEN Return(receiver.declared_type)
    ELSE Raise("AttributeError",
               <<receiver.kind, " object has no attribute ", "declared_type">>)

(* Variant: the method is looked up before the receiver type is tested. *)
MethodCall_check_types_lookup_first(e) ==
    LET rt == static_type(e.receiver) IN
    IF Raised(rt) THEN rt
    ELSE LET m == method_named(rt.value, e.method_name) IN
         IF Raised(m) THEN m
         ELSE IF rt.value \in NoMethodTypes
         THEN Raise("JavaTypeError",
                    <<"Type ", name(rt.value), " does not have methods">>)
         ELSE LET d == receiver_declared_type(e.receiver) IN
              IF Raised(d) THEN d
              ELSE LET call_name == <<name(d.value), ".", e.method_name, "()">>
                       actual == actual_types_of(e.args)
                   IN IF Raised(actual) THEN actual
                      ELSE MethodCall_compare(call_name, m.value.argument_types,
                                              actual.value)

MethodCall_check_types(e) ==
    LET rt == static_type(e.receiver) IN
    IF Raised(rt) THEN rt
    ELSE IF rt.value \in NoMethodTypes
    THEN Raise("JavaTypeError", <<"Type ", name(rt.value), " does not have methods">>)
    ELSE LET m == method_named(rt.value, e.method_name) IN
         IF Raised(m) THEN m
         ELSE LET d == receiver_declared_type(e.receiver) IN
              IF Raised(d) THEN d
              ELSE LET call_name == <<name(d.value), ".", e.method_name, "()">>
                       actual == actual_types_of(e.args)
                   IN IF Raised(actual) THEN actual
                      ELSE MethodCall_compare(call_name, m.value.argument_types,
                                              actual.value)

(* Variant: the constructor promotes arguments the way the method call does. *)
ConstructorCall_compare_promoting(type, expected_types, actual_types) ==
    IF Len(actual_types) # Len(expected_types)
    THEN Raise("JavaTypeError",
               <<"Wrong number of arguments for ", name(type),
                 " constructor: expected ", ToString(Len(expected_types)),
                 ", got ", ToString(Len(actual_types))>>)
    ELSE IF promote(expected_types, actual_types) # expected_types
         THEN Raise("JavaTypeError",
                    <<name(type), " constructor expects arguments of type ">>
                        \o names(expected_types) \o <<", but got ">>
                        \o names(actual_types))
         ELSE Return(None)

ConstructorCall_compare(type, expected_types, actual_types) ==
    IF Len(actual_types) # Len(expected_types)
    THEN Raise("JavaTypeError",
               <<"Wrong number of arguments for ", name(type),
                 " constructor: expected ", ToString(Len(expected_types)),
                 ", got ", ToString(Len(actual_types))>>)
    ELSE IF actual_types # expected_types
         THEN Raise("JavaTypeError",
                    <<name(type), " constructor expects arguments of type ">>
                        \o names(expected_types) \o <<", but got ">>
                        \o names(actual_types))
         ELSE Return(None)

(* Variant: the argument types are collected before the type is tested. *)
ConstructorCall_check_types_args_first(e) ==
    LET actual == actual_types_of(e.args) IN
    IF Raised(actual) THEN actual
    ELSE IF e.instantiated_type \in NotInstantiableTypes
    THEN Raise("JavaTypeError",
               <<"Type ", name(e.instantiated_type), " is not instantiable">>)
    ELSE ConstructorCall_compare(e.instantiated_type,
                                 constructor(e.instantiated_type).argument_types,
                                 actual.value)

ConstructorCall_check_types(e) ==
    IF e.instantiated_type \in NotInstantiableTypes
    THEN Raise("JavaTypeError",
               <<"Type ", name(e.instantiated_type), " is not instantiable">>)
    ELSE LET actual == actual_types_of(e.args) IN
         IF Raised(actual) THEN actual
         ELSE ConstructorCall_compare(e.instantiated_type,
                                      constructor(e.instantiated_type).argument_types,
                                      actual.value)

check_types(e) ==
    CASE e.kind = "Variable"        -> Variable_check_types(e)
      [] e.kind = "Literal"         -> Expression_check_types(e)
      [] e.kind = "NullLiteral"     -> Expression_check_types(e)
      [] e.kind = "MethodCall"      -> MethodCall_check_types(e)
      [] e.kind = "ConstructorCall" -> ConstructorCall_check_types(e)

----------------------------------------------------------------------------------------------------------------------------------------------
(* The client: builds one expression tree bottom-up, and calls              *)
(* static_type() and check_types() on its root.  Trees have at most         *)
(* MaxNodes nodes and calls at most MaxArgs arguments.                      *)

VARIABLES root, stype, outcome
vars == <<root, stype, outcome>>

Empty == [kind |-> "Empty"]
NotCalled == [kind |-> "none"]

VarNames == {"x"}
LiteralValues == {"0"}
ArgTypes == {"int", "Object", "Rectangle", "Square"}
LiteralReceiverTypes == {"Square"}

Leaves ==
    {Variable(n, t) : n \in VarNames, t \in Types}
        \cup {Literal(v, t) : v \in LiteralValues, t \in Types}
        \cup {NullLiteral}

(* The leaves offered to a call node as receiver and as argument. *)
ReceiverLeaves ==
    {Variable(n, t) : n \in VarNames, t \in Types}
        \cup {Literal(v, t) : v \in LiteralValues, t \in LiteralReceiverTypes}
        \cup {NullLiteral}

ArgLeaves == {Variable(n, t) : n \in VarNames, t \in ArgTypes}

RECURSIVE SumSizes(_, _)
RECURSIVE size(_)
SumSizes(es, i) == IF i > Len(es) THEN 0 ELSE size(es[i]) + SumSizes(es, i + 1)
size(e) ==
    CASE e.kind = "MethodCall"      -> 1 + size(e.receiver) + SumSizes(e.args, 1)
      [] e.kind = "ConstructorCall" -> 1 + SumSizes(e.args, 1)
      [] OTHER                      -> 1

Children(e) ==
    CASE e.kind = "MethodCall"      ->
            {e.receiver} \cup {e.args[i] : i \in 1..Len(e.args)}
      [] e.kind = "ConstructorCall" -> {e.args[i] : i \in 1..Len(e.args)}
      [] OTHER                      -> {}

(* Sub-expressions a new call node can be given: leaves, and the call built *)
(* so far.  A new node either starts the tree or is built over the root.    *)
Fresh == stype = NotCalled /\ outcome = NotCalled
Built == IF IsCall(root) /\ Fresh /\ size(root) < MaxNodes THEN {root} ELSE {}

(* Argument lists of at most MaxArgs arguments that leave the tree within   *)
(* MaxNodes nodes when `room` nodes are left for them.                      *)
ArgLists(room) ==
    UNION {[1..k -> ArgLeaves \cup Built] :
              k \in 0..(IF room < MaxArgs THEN room ELSE MaxArgs)}
Extends(e) == size(e) <= MaxNodes /\ (root = Empty \/ root \in Children(e))

Build(e) ==
    /\ root' = e
    /\ stype' = NotCalled
    /\ outcome' = NotCalled

NewVariable ==
    /\ root = Empty
    /\ \E n \in VarNames, t \in Types : Build(Variable(n, t))

NewLiteral ==
    /\ root = Empty
    /\ \E v \in LiteralValues, t \in Types : Build(Literal(v, t))

NewNullLiteral ==
    /\ root = Empty
    /\ Build(NullLiteral)

NewMethodCall ==
    \/ /\ root = Empty
       /\ \E r \in ReceiverLeaves, m \in MethodNames, args \in ArgLists(MaxNodes - 2) :
             Build(MethodCall(r, m, args))
    \/ \E r \in Built :
          \E m \in MethodNames, args \in ArgLists(MaxNodes - 1 - size(r)) :
                /\ Extends(MethodCall(r, m, args))
                /\ Build(MethodCall(r, m, args))
    \/ \E b \in Built :
          \E r \in ReceiverLeaves, m \in MethodNames,
             args \in ArgLists(MaxNodes - 1 - size(b)) :
                /\ Extends(MethodCall(r, m, args))
                /\ Build(MethodCall(r, m, args))

NewConstructorCall ==
    \/ /\ root = Empty
       /\ \E t \in Types, args \in ArgLists(MaxNodes - 1) :
             Build(ConstructorCall(t, args))
    \/ \E b \in Built :
          \E t \in Types, args \in ArgLists(MaxNodes - size(b)) :
                /\ Extends(ConstructorCall(t, args))
                /\ Build(ConstructorCall(t, args))

CallStaticType ==
    /\ root # Empty
    /\ stype = NotCalled
    /\ stype' = static_type(root)
    /\ UNCHANGED <<root, outcome>>

CallCheckTypes ==
    /\ root # Empty
    /\ outcome = NotCalled
    /\ outcome' = check_types(root)
    /\ UNCHANGED <<root, stype>>

Init ==
    /\ root = Empty
    /\ stype = NotCalled
    /\ outcome = NotCalled

Next ==
    \/ NewVariable
    \/ NewLiteral
    \/ NewNullLiteral
    \/ NewMethodCall
    \/ NewConstructorCall
    \/ CallStaticType
    \/ CallCheckTypes

Spec == Init /\ [][Next]_vars

----------------------------------------------------------------------------
(* Vocabulary of the properties. *)

Checked == outcome # NotCalled
Typed == stype # NotCalled
Succeeded(r) == r = Return(None)

HasPart(r, part) == \E i \in DOMAIN r.message : r.message[i] = part
IsJavaTypeError(r) == Raised(r) /\ r.error = "JavaTypeError"
IsArityError(r) == IsJavaTypeError(r) /\ r.message[1] = "Wrong number of arguments for "
IsMethodMismatch(r) == IsJavaTypeError(r) /\ HasPart(r, " expects arguments of type ")
IsConstructorMismatch(r) ==
    IsJavaTypeError(r) /\ HasPart(r, " constructor expects arguments of type ")

SeqToSet(q) == {q[i] : i \in 1..Len(q)}

(* A method call whose receiver has a computable object type that has the  *)
(* method, and whose arguments all have a computable static type.          *)
ResolvedMethodCall(e) ==
    /\ e.kind = "MethodCall"
    /\ ~Raised(static_type(e.receiver))
    /\ static_type(e.receiver).value \in ClassTypes
    /\ ~Raised(method_named(static_type(e.receiver).value, e.method_name))
    /\ ~Raised(actual_types_of(e.args))

ResolvedConstructorCall(e) ==
    /\ e.kind = "ConstructorCall"
    /\ e.instantiated_type \in ClassTypes
    /\ ~Raised(actual_types_of(e.args))

DeclaredMethod(e) == method_named(static_type(e.receiver).value, e.method_name).value
Expected(e) ==
    IF e.kind = "MethodCall" THEN DeclaredMethod(e).argument_types
    ELSE constructor(e.instantiated_type).argument_types
Actual(e) == actual_types_of(e.args).value

(* Every position matches exactly or by one step to a direct supertype. *)
OneLevelMatch(expected, actual) ==
    \A i \in 1..Len(expected) :
        \/ actual[i] = expected[i]
        \/ expected[i] \in direct_supertypes(actual[i])

----------------------------------------------------------------------------
(* C1: for every Literal and NullLiteral, check_types() completes without  *)
(* raising anything and static_type() returns the type given at            *)
(* construction (the null type for NullLiteral).                           *)
C1_LiteralAlwaysValid ==
    root.kind \in {"Literal", "NullLiteral"} =>
        /\ Checked => Succeeded(outcome)
        /\ Typed => stype = Return(root.type)

(* C2: a method call on a receiver of object type, with the declared       *)
(* number of arguments and exactly the declared argument types, passes     *)
(* check_types() and has the declared return type, whatever kind of        *)
(* expression the receiver is.                                             *)
C2_ExactCallAccepted ==
    (ResolvedMethodCall(root) /\ Actual(root) = Expected(root)) =>
        /\ Checked => Succeeded(outcome)
        /\ Typed => stype = Return(DeclaredMethod(root).return_type)

(* C3: a method call on a receiver of object type with the declared number *)
(* of arguments passes check_types() exactly when every argument type      *)
(* equals the parameter type or has it as a direct supertype; otherwise it *)
(* fails with the argument-type-mismatch error.                            *)
C3_OneLevelWidening ==
    (ResolvedMethodCall(root) /\ Len(Actual(root)) = Len(Expected(root)) /\ Checked) =>
        IF OneLevelMatch(Expected(root), Actual(root))
        THEN Succeeded(outcome)
        ELSE IsMethodMismatch(outcome)

(* C4: a constructor call on an object type passes check_types() exactly   *)
(* when it has the declared number of arguments and every argument type is *)
(* identical to the parameter type; a differing position is rejected with  *)
(* the mismatch error whatever supertype relation holds; static_type() is  *)
(* always the instantiated type.                                           *)
C4_ConstructorExactMatch ==
    /\ (root.kind = "ConstructorCall" /\ Typed) =>
            stype = Return(root.instantiated_type)
    /\ (ResolvedConstructorCall(root) /\ Checked) =>
            /\ Succeeded(outcome) <=> Actual(root) = Expected(root)
            /\ (Len(Actual(root)) = Len(Expected(root))
                    /\ Actual(root) # Expected(root)) => IsConstructorMismatch(outcome)

(* A constructor call rejected although a method with the same parameter   *)
(* list accepts the same argument types by widening.                       *)
C4_Witness ==
    /\ ResolvedConstructorCall(root)
    /\ Checked
    /\ IsConstructorMismatch(outcome)
    /\ Len(Actual(root)) = Len(Expected(root))
    /\ OneLevelMatch(Expected(root), Actual(root))
    /\ Succeeded(MethodCall_compare(<<"m">>, Expected(root), Actual(root)))
    /\ stype = Return(root.instantiated_type)

(* C5: a method call whose receiver's static type is void, boolean, int,   *)
(* double or null always fails with the 'does not have methods' error      *)
(* naming that type, whatever the method name and the arguments.           *)
C5_PrimitiveReceiverRejected ==
    (/\ root.kind = "MethodCall"
     /\ Checked
     /\ ~Raised(static_type(root.receiver))
     /\ static_type(root.receiver).value \in Primitives) =>
        outcome = Raise("JavaTypeError",
                        <<"Type ", static_type(root.receiver).value,
                          " does not have methods">>)

(* A call on a primitive-typed receiver with an unknown method and an      *)
(* argument whose own static type cannot be computed, rejected at step 1.  *)
C5_Witness ==
    /\ root.kind = "MethodCall"
    /\ Checked
    /\ ~Raised(static_type(root.receiver))
    /\ static_type(root.receiver).value \in Primitives
    /\ Raised(method_named(static_type(root.receiver).value, root.method_name))
    /\ Raised(actual_types_of(root.args))
    /\ IsJavaTypeError(outcome)

(* C6: in a method call and in a constructor call on an object type, a     *)
(* number of arguments different from the declared one always gives the    *)
(* 'wrong number of arguments' error with both counts, never the           *)
(* argument-type-mismatch error.                                           *)
C6_ArityFirst ==
    (/\ ResolvedMethodCall(root) \/ ResolvedConstructorCall(root)
     /\ Checked
     /\ Len(Actual(root)) # Len(Expected(root))) =>
        /\ IsArityError(outcome)
        /\ HasPart(outcome, ToString(Len(Expected(root))))
        /\ HasPart(outcome, ToString(Len(Actual(root))))

(* C7: a call whose argument is itself an ill-typed call still passes      *)
(* check_types() when every argument's static type is computable and       *)
(* equals the parameter type: the sub-expressions are never validated.     *)
C7_NoTransitiveValidation ==
    (/\ ResolvedMethodCall(root) \/ ResolvedConstructorCall(root)
     /\ Checked
     /\ \E a \in SeqToSet(root.args) : IsCall(a) /\ Raised(check_types(a))
     /\ Actual(root) = Expected(root)) =>
        Succeeded(outcome)

(* C8: for every Variable, of any declared type, check_types() succeeds    *)
(* and static_type() is the declared type.                                 *)
C8_VariableAlwaysValid ==
    root.kind = "Variable" =>
        /\ Checked => Succeeded(outcome)
        /\ Typed => stype = Return(root.declared_type)

C8_Witness ==
    /\ root.kind = "Variable"
    /\ root.declared_type \in Primitives
    /\ Succeeded(outcome)
    /\ stype = Return(root.declared_type)

(* C9: a constructor call whose instantiated type is void, boolean, int,   *)
(* double or null always fails with the 'is not instantiable' error naming *)
(* that type, whatever the arguments.                                      *)
C9_PrimitiveNotInstantiable ==
    (root.kind = "ConstructorCall" /\ root.instantiated_type \in Primitives /\ Checked) =>
        outcome = Raise("JavaTypeError",
                        <<"Type ", root.instantiated_type, " is not instantiable">>)

(* Rejected at step 1 although an argument's static type is not computable. *)
C9_Witness ==
    /\ root.kind = "ConstructorCall"
    /\ root.instantiated_type \in Primitives
    /\ Raised(actual_types_of(root.args))
    /\ IsJavaTypeError(outcome)

(* C10: the argument-type-mismatch error of a method call reports, after   *)
(* the expected type names, the static types of the arguments in argument  *)
(* order, also at positions that were accepted by promotion.               *)
C10_MismatchReportsActualTypes ==
    (root.kind = "MethodCall" /\ Checked /\ IsMethodMismatch(outcome)) =>
        outcome.message =
            <<root.receiver.declared_type, ".", root.method_name, "()",
              " expects arguments of type ">>
                \o names(Expected(root)) \o <<", but got ">> \o names(Actual(root))

====
